---- MODULE Spec2Model ----
(***************************************************************************)
(* lua-yottadb: the subscript-path cache of src/cachearray.c.              *)
(*                                                                         *)
(* A cachearray is a Lua userdata.  A full one (cachearray_t) holds a      *)
(* header, the descriptor array varname, subs[0..depth_alloc-1] and the    *)
(* text region ("subsdata"); a deferred one (cachearray_dereferenced)      *)
(* holds only a pointer to a full one, its own depth and its own flags.    *)
(*                                                                         *)
(* Memory is modelled by what the code can observe of it:                  *)
(*  - every userdata the caller has been handed is an entry of objs, and   *)
(*    its index is its address;                                            *)
(*  - a descriptor is (base, off, len): buf_addr is byte off of the text   *)
(*    region of the userdata base;                                         *)
(*  - memory that was never written holds JunkByte / JunkEl, and a pointer *)
(*    into memory that is gone (the C stack array of _cachearray_create,   *)
(*    a userdata no Lua value refers to any more) has base Dangling.  What *)
(*    the code reads there is not determined by the program: a branch      *)
(*    taken on it is a nondeterministic choice, and a text read there is   *)
(*    not a definite text.                                                 *)
(***************************************************************************)
EXTENDS Integers, Sequences, FiniteSets, TLC

VARIABLES objs, born, anc, last, cip, tp, registry

vars == <<objs, born, anc, last, cip, tp, registry>>

\* the state of the call-in and transaction wrappers, which no cachearray
\* function touches
wrappers == <<cip, tp, registry>>

---------------------------------------------------------------------------
(* Program constants *)

ARRAY_OVERALLOC == 5

YDB_TYPICAL_SUBLEN == 10

YDB_MAX_SUBS == 31

YDB_LARGE_SUBSLEN == YDB_TYPICAL_SUBLEN * YDB_MAX_SUBS

MUTABLE_BIT == 1

---------------------------------------------------------------------------
(* Bounds of the model *)

\* userdata the caller may hold at once
MaxObjs == 3

\* length of the long subscript text: above ARRAY_OVERALLOC*YDB_TYPICAL_SUBLEN
\* plus one YDB_TYPICAL_SUBLEN, so that it overflows a freshly grown text region
LongLen == 61

\* length of the very long subscript text, which alone fills the temporary
\* array of _cachearray_create
HugeLen == 310

\* depth up to which the one-at-a-time chain descends
MaxChain == 9

\* the userdata held, and the largest index asked for, when subscripts are read
MaxRead == 2

MaxIdx == 4

\* the largest depth cachearray_tostring is asked to show
MaxShow == 3

---------------------------------------------------------------------------
(* Values *)

Min(a, b) == IF a < b THEN a ELSE b

JunkByte == -1

JunkBase == -1

Dangling == -2

TmpBase == 0

JunkEl == [base |-> JunkBase, off |-> -1, len |-> -1]

\* texts: Lua strings as byte sequences
VarName == <<9>>

SA == <<1>>

SB == <<2>>

SL == [i \in 1..LongLen |-> 3]

SH == [i \in 1..HugeLen |-> 4]

Strs == {SA, SB, SL}

\* an argument that is neither a string nor a number
NotAString == <<-3>>

\* the subscript lists handed to one call
ArgLists == {<<>>} \cup {<<s>> : s \in Strs}
            \cup {<<SA, SB>>, <<SA, SL>>, <<SL, SA>>, <<SL, SL>>}

CreateLists == {<<>>, <<SA>>, <<SA, SB>>}

\* what an uninitialised short on the C stack may hold
JunkShorts == {-1, 0, 1, 40}

\* a cachearray_dereferenced; uservalue is the userdata its Lua uservalue
\* refers to
Deferred(deref, depth, flags, uservalue) ==
  [kind |-> "deferred", dereference |-> deref, depth |-> depth, flags |-> flags,
   subsdata_alloc |-> 0, depth_alloc |-> 0, depth_used |-> 0,
   el |-> <<>>, data |-> <<>>, uservalue |-> uservalue]

\* a userdata the collector has reclaimed
Reclaimed(self) ==
  [kind |-> "reclaimed", dereference |-> self, depth |-> 0, flags |-> 0,
   subsdata_alloc |-> 0, depth_alloc |-> 0, depth_used |-> 0,
   el |-> <<>>, data |-> <<>>]

IsMutable(array) == (array.flags % 2) = MUTABLE_BIT

---------------------------------------------------------------------------
(* Reading memory *)

\* the text region a descriptor of the array under construction (cur, at
\* address curid) or of a published userdata points into; <<>> when the
\* memory is gone or was never there
Region(mem, cur, curid, base) ==
  IF base = curid THEN cur.data
  ELSE IF base \in 1..Len(mem) THEN mem[base].data
  ELSE <<>>

\* the bytes a descriptor denotes: <<JunkByte>> when its fields are junk or
\* it points outside any live text region
ElText(mem, cur, curid, e) ==
  LET region == Region(mem, cur, curid, e.base) IN
  IF e.len < 0 \/ e.off < 0 \/ e.off + e.len > Len(region)
  THEN <<JunkByte>>
  ELSE [i \in 1..e.len |-> region[e.off + i]]

Definite(text) == \A i \in 1..Len(text) : text[i] # JunkByte

---------------------------------------------------------------------------
(* Grower: _cachearray_updateaddr and _cachearray_realloc *)

\* number of descriptors after varname that _cachearray_updateaddr walks:
\* depth_used, or depth_alloc when depth_used (compared as unsigned) is above it
UpdateDepth(depth_used, depth_alloc) ==
  IF depth_used < 0 \/ depth_used > depth_alloc THEN depth_alloc ELSE depth_used

\* descriptors 0..UpdateDepth get buf_addr = subsdata + the lengths before
\* them; their lengths, and every later descriptor, are left as they are
_cachearray_updateaddr(array, self) ==
  LET d == UpdateDepth(array.depth_used, array.depth_alloc)
      addr[i \in 0..d] ==
        IF i = 0 THEN 0
        ELSE IF \E j \in 1..i : array.el[j].len < 0 THEN -1
        ELSE addr[i-1] + array.el[i].len
  IN [array EXCEPT !.el =
        [i \in 1..Len(array.el) |->
           IF i - 1 <= d
           THEN [base |-> IF addr[i-1] < 0 THEN JunkBase ELSE self,
                 off  |-> addr[i-1],
                 len  |-> array.el[i].len]
           ELSE array.el[i]]]

\* C parses "1 + array->depth_alloc<new_depth? array->depth_alloc: new_depth"
\* as (1 + depth_alloc < new_depth) ? depth_alloc : new_depth
CopyDepth(depth_alloc, new_depth) ==
  IF 1 + depth_alloc < new_depth THEN depth_alloc ELSE new_depth

\* Variant: no spare descriptor slot is allocated.
DepthAlloc_NoSpare(new_depth) == new_depth

\* depth_alloc2: "ARRAY_OVERALLOC will be added to this"
DepthAlloc(new_depth) == new_depth + ARRAY_OVERALLOC

\* Variant: no spare text is allocated.
SubsdataAlloc_NoSpare(new_subslen) == new_subslen

\* subsdata_alloc2: "ARRAY_OVERALLOC*YDB_TYPICAL_SUBLEN will be added"
SubsdataAlloc(new_subslen) == new_subslen + ARRAY_OVERALLOC * YDB_TYPICAL_SUBLEN

\* the new userdata at address self: cachearray_new clears flags; depth_used,
\* varname and subs[0..copydepth-1] are copied in one block (a descriptor read
\* past the old array's subs[] is text reinterpreted: junk); the first
\* min(subsdata_alloc, new_subslen) text bytes are copied; the rest of the new
\* userdata is as lua_newuserdata left it
_cachearray_realloc(array, new_depth, new_subslen, self) ==
  LET depth_alloc2    == DepthAlloc(new_depth)
      subsdata_alloc2 == SubsdataAlloc(new_subslen)
      copydepth       == CopyDepth(array.depth_alloc, new_depth)
      copysize        == Min(array.subsdata_alloc, new_subslen)
      newarray ==
        [kind |-> "array", dereference |-> self, depth |-> new_depth, flags |-> 0,
         subsdata_alloc |-> subsdata_alloc2, depth_alloc |-> depth_alloc2,
         depth_used |-> array.depth_used,
         el |-> [i \in 1..(depth_alloc2 + 1) |->
                   IF i - 1 <= copydepth /\ i <= Len(array.el)
                   THEN array.el[i] ELSE JunkEl],
         data |-> [i \in 1..subsdata_alloc2 |->
                   IF i <= copysize THEN array.data[i] ELSE JunkByte]]
  IN _cachearray_updateaddr(newarray, self)

\* get_subslen: end of descriptor depth, as an offset into the text region
get_subslen(array, depth) == array.el[depth + 1].off + array.el[depth + 1].len

\* memcpy(subsdata+subslen, string, len), then the descriptor at index sub
\* (0 = varname) is pointed at it
WriteSub(array, self, sub, subslen, string) ==
  [array EXCEPT
     !.data = [i \in 1..Len(array.data) |->
                 IF i > subslen /\ i <= subslen + Len(string)
                 THEN string[i - subslen] ELSE array.data[i]],
     !.el[sub + 1] = [base |-> self, off |-> subslen, len |-> Len(string)]]

\* when a call returns, the userdata it leaves is at address final; the
\* userdata it allocated before that one, and its C stack, are gone
Settle(array, tmpid, final, n) ==
  [array EXCEPT
     !.dereference = final,
     !.el = [i \in 1..Len(array.el) |->
               LET e == array.el[i] IN
               IF e.base = tmpid THEN [e EXCEPT !.base = final]
               ELSE IF e.base \in 1..n \/ e.base = JunkBase THEN e
               ELSE [e EXCEPT !.base = Dangling]]]

---------------------------------------------------------------------------
(* Builder: _cachearray_create *)

\* the array _tmp_array on the C stack: subsdata_alloc and depth_alloc are set,
\* everything else, depth_used included, is whatever the stack held
TmpArray(depth, junk) ==
  [kind |-> "array", dereference |-> TmpBase, depth |-> junk, flags |-> 0,
   subsdata_alloc |-> YDB_LARGE_SUBSLEN, depth_alloc |-> depth + ARRAY_OVERALLOC,
   depth_used |-> junk,
   el |-> [i \in 1..(depth + ARRAY_OVERALLOC + 1) |-> JunkEl],
   data |-> [i \in 1..YDB_LARGE_SUBSLEN |-> JunkByte]]

\* the address of the next userdata a call allocates: n userdata exist, and
\* the call may already have allocated some
NextId(curid, n) == IF curid <= n THEN n + 1 ELSE curid + 1

\* one pass of the loop: string goes to descriptor sub, after a reallocation
\* when the text region is too small for it
CreatePass(array, curid, subslen, sub, string, depth, n) ==
  LET grow == subslen + Len(string) > array.subsdata_alloc
      id   == IF grow THEN NextId(curid, n) ELSE curid
      a1   == IF grow
              THEN _cachearray_realloc(array, depth, subslen + Len(string), id)
              ELSE array
  IN [array |-> WriteSub(a1, id, sub, subslen, string), id |-> id,
      subslen |-> subslen + Len(string)]

\* the loop over varname and the subscripts: items[sub+1] goes to descriptor
\* sub, and pass is what one pass leaves for the next
RECURSIVE CreateLoop(_, _, _, _, _, _, _)
CreateLoop(array, curid, subslen, sub, items, depth, n) ==
  IF sub >= Len(items) THEN [array |-> array, id |-> curid, subslen |-> subslen]
  ELSE
    CHOOSE built \in
      {CreateLoop(pass.array, pass.id, pass.subslen, sub + 1, items, depth, n) :
         pass \in {CreatePass(array, curid, subslen, sub, items[sub + 1], depth, n)}} :
      TRUE

\* the userdata _cachearray_create(L, NULL) returns when n userdata exist
_cachearray_create(varname, subs, junk, n) ==
  LET depth  == Len(subs)
      built  == CreateLoop(TmpArray(depth, junk), TmpBase, 0, 0,
                           <<varname>> \o subs, depth, n)
      filled == [built.array EXCEPT !.depth_used = depth]
      moved  == IF built.id = TmpBase
                THEN _cachearray_realloc(filled, depth, built.subslen, n + 1)
                ELSE filled
      id     == IF built.id = TmpBase THEN n + 1 ELSE built.id
  IN Settle([moved EXCEPT !.depth = depth], id, n + 1, n)

CreateDepthError(subs) == Len(subs) > YDB_MAX_SUBS

---------------------------------------------------------------------------
(* Builder: _cachearray_deferred and cachearray_append *)

\* a deferred cachearray made from the userdata at stack index 1
\* Variant: the new cachearray references the userdata it was made from.
_cachearray_deferred_KeepsParent(mem, h) ==
  Deferred(mem[h].dereference, mem[h].depth, mem[h].flags, h)

\* the uservalue is the parent when the parent is an array, and the parent's
\* uservalue when the parent is deferred itself
_cachearray_deferred(mem, h) ==
  Deferred(mem[h].dereference, mem[h].depth, mem[h].flags,
           IF mem[h].dereference = h THEN h ELSE mem[h].uservalue)

\* len != subs[depth].len_used || memcmp(string, subs[depth].buf_addr, len) != 0;
\* o is the outcome when the descriptor or the bytes it points at are junk
Differs(mem, array, curid, depth, string, o) ==
  LET e == array.el[depth + 2]
      t == ElText(mem, array, curid, e)
  IN IF e.len < 0 THEN o
     ELSE IF Len(string) # e.len THEN TRUE
     ELSE IF Definite(t) THEN string # t
     ELSE o

\* Variant: the used-slot test is off by one and the comparison with the text
\* already stored is dropped, so a buffer whose slots are all free is copied.
ForkNeeded_NoReuse(mem, array, curid, depth, subslen, string, o) ==
  IF IsMutable(array) THEN TRUE
  ELSE IF subslen + Len(string) > array.subsdata_alloc THEN TRUE
  ELSE IF depth >= array.depth_alloc THEN TRUE
  ELSE array.depth_used >= depth

\* Variant: the mutable flag is not consulted.
ForkNeeded_IgnoresMutable(mem, array, curid, depth, subslen, string, o) ==
  IF subslen + Len(string) > array.subsdata_alloc THEN TRUE
  ELSE IF depth >= array.depth_alloc THEN TRUE
  ELSE array.depth_used > depth /\ Differs(mem, array, curid, depth, string, o)

\* Variant: the test for room in the text region is dropped.
ForkNeeded_IgnoresText(mem, array, curid, depth, subslen, string, o) ==
  IF IsMutable(array) THEN TRUE
  ELSE IF depth >= array.depth_alloc THEN TRUE
  ELSE array.depth_used > depth /\ Differs(mem, array, curid, depth, string, o)

\* Variant: the test for a free descriptor slot is dropped.
ForkNeeded_IgnoresSlots(mem, array, curid, depth, subslen, string, o) ==
  IF IsMutable(array) THEN TRUE
  ELSE IF subslen + Len(string) > array.subsdata_alloc THEN TRUE
  ELSE array.depth_used > depth /\ Differs(mem, array, curid, depth, string, o)

\* "if appending will overfill or clobber an existing array element,
\* allocate a new cachearray"
ForkNeeded(mem, array, curid, depth, subslen, string, o) ==
  IF IsMutable(array) THEN TRUE
  ELSE IF subslen + Len(string) > array.subsdata_alloc THEN TRUE
  ELSE IF depth >= array.depth_alloc THEN TRUE
  ELSE array.depth_used > depth /\ Differs(mem, array, curid, depth, string, o)

\* the loop over the arguments.  Until the first fork the array written is
\* the userdata at address curid <= n itself, so mem changes; after it the
\* array is the one being built, at an address above n
RECURSIVE AppendLoop(_, _, _, _, _, _, _, _, _, _)
AppendLoop(mem, array, curid, depth, subslen, args, arg, depth2, n, orc) ==
  IF arg > Len(args)
  THEN [mem |-> mem, array |-> array, id |-> curid, err |-> FALSE]
  ELSE IF args[arg] = NotAString
  THEN [mem |-> mem, array |-> array, id |-> curid, err |-> TRUE]
  ELSE
    LET string == args[arg]
        fork   == ForkNeeded(mem, array, curid, depth, subslen, string, orc[arg])
        id     == IF fork THEN NextId(curid, n) ELSE curid
        a1     == IF fork
                  THEN _cachearray_realloc(array, depth2,
                         subslen + Len(string)
                           + (Len(args) - arg) * YDB_TYPICAL_SUBLEN, id)
                  ELSE array
        a2     == WriteSub(a1, id, depth + 1, subslen, string)
        mem2   == IF id <= n THEN [mem EXCEPT ![id] = a2] ELSE mem
    IN AppendLoop(mem2, a2, id, depth + 1, subslen + Len(string), args, arg + 1,
                  depth2, n, orc)

AppendDepthError(mem, h) ==
  mem[h].depth < 0 \/ mem[h].depth > mem[mem[h].dereference].depth_used

\* Variant: the maximum is compared one too high.
AppendMaxError_OffByOne(mem, h, args) ==
  mem[h].depth + Len(args) > YDB_MAX_SUBS + 1

AppendMaxError(mem, h, args) == mem[h].depth + Len(args) > YDB_MAX_SUBS

\* the depth the array ends with
AppendDepthUsed(depth_used, depth2) == depth2

\* Variant: the call never makes a deferred cachearray.
AppendDefers_Never(same, depth2, original_depth) == FALSE

\* whether the call ends by making a deferred cachearray
AppendDefers(same, depth2, original_depth) == same /\ depth2 # original_depth

\* cachearray_append on handle h: [mem, res, nalloc, err], the memory after
\* the call, the userdata returned, the number of userdata allocated for text
\* and whether the call raised on an argument that is no string (what it
\* wrote in place before that stays written)
cachearray_append(mem, h, args, orc) ==
  LET n        == Len(mem)
      depth    == mem[h].depth
      original == mem[h].dereference
      depth2   == depth + Len(args)
      looped   == AppendLoop(mem, mem[original], original, depth,
                             get_subslen(mem[original], depth), args, 1,
                             depth2, n, orc)
      same     == looped.id = original
      array    == [looped.array EXCEPT
                     !.depth_used = AppendDepthUsed(looped.array.depth_used, depth2)]
  IN IF looped.err
     THEN [mem |-> looped.mem, res |-> 0, nalloc |-> 0, err |-> TRUE]
     ELSE IF AppendDefers(same, depth2, mem[original].depth)
     THEN [mem |-> Append([looped.mem EXCEPT ![original] = array],
                          [_cachearray_deferred(mem, h) EXCEPT !.depth = depth2]),
           res |-> n + 1, nalloc |-> 0, err |-> FALSE]
     ELSE IF same
     THEN [mem |-> [looped.mem EXCEPT ![original] = [array EXCEPT !.depth = depth2]],
           res |-> h, nalloc |-> 0, err |-> FALSE]
     ELSE [mem |-> Append(looped.mem, Settle([array EXCEPT !.depth = depth2],
                                             looped.id, n + 1, n)),
           res |-> n + 1, nalloc |-> looped.id - n, err |-> FALSE]

---------------------------------------------------------------------------
(* Builder: cachearray_create on a cachearray *)

\* the copy of a mutable cachearray was replaced on the Lua stack by the array
\* forked from it: the copy at address drop is garbage, the array after it is
\* what the caller gets
DropCopy(mem, drop) ==
  LET new == mem[drop + 1]
      fix(e) == IF e.base = drop + 1 THEN [e EXCEPT !.base = drop]
                ELSE IF e.base = drop THEN [e EXCEPT !.base = Dangling]
                ELSE e
  IN Append(SubSeq(mem, 1, drop - 1),
            [new EXCEPT !.dereference = drop,
                        !.el = [i \in 1..Len(new.el) |-> fix(new.el[i])]])

CopyDepthError(mem, h) ==
  /\ IsMutable(mem[mem[h].dereference])
  /\ mem[h].depth < 0 \/ mem[h].depth > mem[mem[h].dereference].depth_used

\* what cachearray_create returns after cachearray_append has run on the copy
\* of a mutable cachearray: r is the outcome of the append, mem the memory
\* before the call
AppendedToCopy(r, mem) ==
  IF r.err
  THEN [mem |-> mem, res |-> 0, nalloc |-> 1, err |-> TRUE]
  ELSE IF r.mem[r.res].kind = "deferred"
  THEN [r EXCEPT !.nalloc = 1]
  ELSE [mem |-> DropCopy(r.mem, Len(mem) + 1), res |-> Len(mem) + 1,
        nalloc |-> 1 + r.nalloc, err |-> FALSE]

\* the rest of cachearray_create once the mutable cachearray has been copied
\* to the end of mem1
CreateOnCopy(mem1, mem, args, orc) ==
  IF args = <<>>
  THEN [mem |-> mem1, res |-> Len(mem1), nalloc |-> 1, err |-> FALSE]
  ELSE IF AppendDepthError(mem1, Len(mem1)) \/ AppendMaxError(mem1, Len(mem1), args)
  THEN [mem |-> mem, res |-> 0, nalloc |-> 1, err |-> TRUE]
  ELSE AppendedToCopy(cachearray_append(mem1, Len(mem1), args, orc), mem)

\* cachearray_create(cachearray, ...): [mem, res, nalloc, err]
cachearray_create(mem, h, args, orc) ==
  IF IsMutable(mem[mem[h].dereference])
  THEN CreateOnCopy(
         Append(mem, _cachearray_realloc(mem[mem[h].dereference], mem[h].depth,
                       get_subslen(mem[mem[h].dereference], mem[h].depth),
                       Len(mem) + 1)),
         mem, args, orc)
  ELSE IF args = <<>>
  THEN [mem |-> mem, res |-> h, nalloc |-> 0, err |-> FALSE]
  ELSE IF AppendDepthError(mem, h) \/ AppendMaxError(mem, h, args)
  THEN [mem |-> mem, res |-> 0, nalloc |-> 0, err |-> TRUE]
  ELSE cachearray_append(mem, h, args, orc)

---------------------------------------------------------------------------
(* Builder: cachearray_tomutable and cachearray_subst *)

cachearray_tomutable(mem, h) ==
  LET depth == mem[h].depth
      array == mem[mem[h].dereference]
      new   == _cachearray_realloc(array, depth, get_subslen(array, depth),
                                   Len(mem) + 1)
  IN [new EXCEPT !.flags = MUTABLE_BIT]

\* Variant: only the mutable flag is checked.
SubstError_FlagOnly(mem, h) == ~IsMutable(mem[mem[h].dereference])

SubstError(mem, h) ==
  LET array == mem[mem[h].dereference]
  IN (~IsMutable(array)) \/ mem[h].depth # array.depth_used

\* Variant: the text is copied but the descriptor keeps the length it had.
SubstWrite_KeepsLength(array, self, depth, string) ==
  [WriteSub(array, self, depth, array.el[depth + 1].off, string)
     EXCEPT !.el[depth + 1].len = array.el[depth + 1].len]

\* memcpy((&array->varname+depth)->buf_addr, string, len) and the new length
SubstWrite(array, self, depth, string) ==
  WriteSub(array, self, depth, array.el[depth + 1].off, string)

\* Variant: the buffer is regrown when the text is longer than the one replaced.
SubstGrows_LongerText(array, depth, string) ==
  Len(string) > array.el[depth + 1].len

\* Variant: the text region is never regrown.
SubstGrows_Never(array, depth, string) == FALSE

SubstGrows(array, depth, string) ==
  array.el[depth + 1].off + Len(string) > array.subsdata_alloc

\* cachearray_subst on handle h: [mem, res, nalloc]
cachearray_subst(mem, h, string) ==
  LET n     == Len(mem)
      depth == mem[h].depth
      a     == mem[h].dereference
      array == mem[a]
  IN IF SubstGrows(array, depth, string)
     THEN LET new == _cachearray_realloc(array, depth,
                        array.el[depth + 1].off + Len(string), n + 1)
          IN [mem |-> Append(mem, SubstWrite([new EXCEPT !.flags = MUTABLE_BIT],
                                             n + 1, depth, string)),
              res |-> n + 1, nalloc |-> 1]
     ELSE [mem |-> [mem EXCEPT ![a] = SubstWrite(array, a, depth, string)],
           res |-> h, nalloc |-> 0]

---------------------------------------------------------------------------
(* Accessors *)

cachearray_depth(mem, h) == mem[h].depth

DomainError == <<-100>>

\* Variant: a negative index counts back from one place too far.
SubscriptIndex_OffByOne(i, inherent_depth) ==
  IF i < 0 THEN inherent_depth + i ELSE i

\* "-n starts from the last subscript"
SubscriptIndex(i, inherent_depth) ==
  IF i < 0 THEN inherent_depth + 1 + i ELSE i

\* Variant: the index one past the last subscript is let through.
SubscriptError_OffByOne(depth, inherent_depth) == depth > inherent_depth + 1

SubscriptError(depth, inherent_depth) == depth > inherent_depth

\* cachearray_subscript(h, i): the text of descriptor i (0 = varname, -n counts
\* back from the last subscript), or DomainError
cachearray_subscript(mem, h, i) ==
  LET inherent_depth == mem[h].depth
      a     == mem[h].dereference
      array == mem[a]
      depth == SubscriptIndex(i, inherent_depth)
  IN IF SubscriptError(depth, inherent_depth) THEN DomainError
     ELSE IF depth < 0 \/ depth + 1 > Len(array.el) THEN <<JunkByte>>
     ELSE ElText(mem, array, a, array.el[depth + 1])

\* what the handle reads: the texts at indices 0..depth
Path(mem, h) == [i \in 1..(mem[h].depth + 1) |-> cachearray_subscript(mem, h, i - 1)]

DefinitePath(path) == \A i \in 1..Len(path) : Definite(path[i])

---------------------------------------------------------------------------
(* Display: cachearray_tostring.  Texts shown are made of the characters
   below, as their ASCII codes. *)

Minus == 45

Point == 46

Zero == 48

Quote == 34

Comma == 44

Backslash == 92

IsDigit(c) == c \in Zero..(Zero + 9)

RECURSIVE DigitsValue(_, _)
DigitsValue(string, k) ==
  IF k = 0 THEN 0 ELSE DigitsValue(string, k - 1) * 10 + (string[k] - Zero)

\* lua_tointeger on a string: the integer it is a numeral of, also when it is
\* written as a float with an integral value, and 0 when there is none
lua_tointeger(string) ==
  LET neg    == string # <<>> /\ string[1] = Minus
      body   == IF neg THEN Tail(string) ELSE string
      points == {i \in 1..Len(body) : body[i] = Point}
      digits == {i \in 1..Len(body) : IsDigit(body[i])}
      first  == IF points = {} THEN Len(body)
                ELSE (CHOOSE i \in points : TRUE) - 1
      value  == DigitsValue(body, first)
  IN IF digits = {} \/ Cardinality(points) > 1
        \/ Cardinality(points) + Cardinality(digits) # Len(body)
     THEN 0
     ELSE IF \E i \in digits : i > first + 1 /\ body[i] # Zero THEN 0
     ELSE IF neg THEN 0 - value ELSE value

\* lua_tostring on an integer
RECURSIVE NatToStr(_)
NatToStr(n) ==
  IF n < 10 THEN <<Zero + n>> ELSE Append(NatToStr(n \div 10), Zero + (n % 10))

IntToStr(n) == IF n < 0 THEN <<Minus>> \o NatToStr(0 - n) ELSE NatToStr(n)

\* Variant: every text that has a digit counts as a number.
isnum_AnyDigit(string) == \E i \in 1..Len(string) : IsDigit(string[i])

\* isnum = lua_compare(tostring(tointeger(string)), string, LUA_OPEQ)
isnum(string) == IntToStr(lua_tointeger(string)) = string

\* string.format("%q", string)
RECURSIVE Escaped(_, _)
Escaped(string, k) ==
  IF k = 0 THEN <<>>
  ELSE Escaped(string, k - 1)
       \o (IF string[k] \in {Quote, Backslash} THEN <<Backslash, string[k]>>
           ELSE <<string[k]>>)

format_q(string) == <<Quote>> \o Escaped(string, Len(string)) \o <<Quote>>

\* string.format(isnum and "%s" or "%q", subscript); bytes that are not
\* determined give an output that is not determined
Shown(string) ==
  IF ~Definite(string) THEN <<JunkByte>>
  ELSE IF isnum(string) THEN string
  ELSE format_q(string)

\* lua_concat of the first k subscripts and the commas between them
RECURSIVE Joined(_, _)
Joined(texts, k) ==
  IF k = 0 THEN <<>>
  ELSE IF k = 1 THEN Shown(texts[1])
  ELSE Joined(texts, k - 1) \o <<Comma>> \o Shown(texts[k])

\* Variant: the depth is checked against the handle, not against the array.
ToStringError_HandleDepth(mem, h, depth) == depth < 0 \/ depth > mem[h].depth

ToStringError(mem, h, depth) ==
  depth < 0 \/ depth > mem[mem[h].dereference].depth_used

\* cachearray_tostring(h [, d]): subscript_list and varname, for a depth that
\* passed the check
cachearray_tostring(mem, h, depth) ==
  LET a     == mem[h].dereference
      array == mem[a]
      texts == [i \in 1..depth |-> ElText(mem, array, a, array.el[i + 1])]
  IN [subscript_list |-> Joined(texts, depth),
      varname        |-> ElText(mem, array, a, array.el[1])]

---------------------------------------------------------------------------
(* Adapter: what a database call hands the engine for a cachearray *)

\* Variant: the subscript count is taken from the array, not from the handle.
getsubs_CountsUsed(mem, h) ==
  LET a     == mem[h].dereference
      array == mem[a]
  IN [subs_used |-> array.depth_used,
      varname   |-> ElText(mem, array, a, array.el[1]),
      subsarray |-> [i \in 1..array.depth_used |->
                       ElText(mem, array, a, array.el[i + 1])]]

\* getsubs: _subs_used, _varname and the first _subs_used entries of _subsarray
getsubs(mem, h) ==
  LET a     == mem[h].dereference
      array == mem[a]
  IN [subs_used |-> mem[h].depth,
      varname   |-> ElText(mem, array, a, array.el[1]),
      subsarray |-> [i \in 1..mem[h].depth |->
                       ElText(mem, array, a, array.el[i + 1])]]

---------------------------------------------------------------------------
(* Call-ins: cip, its parameter casts and its cleanup *)

\* type ids of the call-in table
YDB_INT_T == 2

YDB_DOUBLE_T_PTR == 28

YDB_CHAR_T_PTR == 136

YDB_STRING_T_PTR == 137

YDB_BUFFER_T_PTR == 138

\* a type id with the string bit set that names no string type
InvalidStrType == 139

_YDB_TYPE_ISSTR == 128

_YDB_TYPE_ISREAL == 16

YDB_TYPE_ISSTR(type) == type >= _YDB_TYPE_ISSTR

YDB_TYPE_ISINTEGRAL(type) == type < _YDB_TYPE_ISREAL

_YDB_TYPE_IS32BIT == 2

YDB_TYPE_IS32BIT(type) == (type \div _YDB_TYPE_IS32BIT) % 2 = 1

\* the Lua values given as parameters, by what the conversions make of them:
\* "text" converts to a string only, "int" to string, integer and number,
\* "huge" is an integer outside 32 bits, "table" converts to nothing
LuaValues == {"text", "int", "huge", "table"}

ToLString(value) == value # "table"

ToIntegerX(value) == value \in {"int", "huge"}

ToNumberX(value) == value \in {"int", "huge"}

\* the metadata of one call: for every space add_malloc recorded the number
\* of times it was freed, the flags Signal_blocker was invoked with, the
\* number of times cip_cleanup ran and whether a Lua error was raised
NoMeta == [malloc |-> <<>>, flags |-> <<>>, cleanups |-> 0, raised |-> FALSE]

invoke_signal_blocker(meta, Signal_blocker, flag) ==
  IF Signal_blocker THEN [meta EXCEPT !.flags = Append(@, flag)] ELSE meta

add_malloc(meta) == [meta EXCEPT !.malloc = Append(@, 0)]

free_mallocs(meta) ==
  [meta EXCEPT !.malloc = [i \in 1..Len(meta.malloc) |-> meta.malloc[i] + 1]]

cip_cleanup(meta, Signal_blocker) ==
  invoke_signal_blocker([free_mallocs(meta) EXCEPT !.cleanups = @ + 1],
                        Signal_blocker, TRUE)

luaL_error(meta) == [meta EXCEPT !.raised = TRUE]

\* Variant: the error is raised without the cleanup.
typeerror_cleanup_RaisesOnly(meta, Signal_blocker) == luaL_error(meta)

typeerror_cleanup(meta, Signal_blocker) ==
  luaL_error(cip_cleanup(meta, Signal_blocker))

\* cast2ydb for one type_spec and the Lua value at its index
cast2ydb(meta, Signal_blocker, ydb_type, value) ==
  IF YDB_TYPE_ISSTR(ydb_type.type)
  THEN IF ydb_type.input /\ ~ToLString(value)
       THEN typeerror_cleanup(meta, Signal_blocker)
       ELSE IF ydb_type.type \in {YDB_CHAR_T_PTR, YDB_STRING_T_PTR, YDB_BUFFER_T_PTR}
       THEN IF ydb_type.output THEN add_malloc(meta) ELSE meta
       ELSE luaL_error(cip_cleanup(meta, Signal_blocker))
  ELSE IF ~ydb_type.input THEN meta
  ELSE IF YDB_TYPE_ISINTEGRAL(ydb_type.type)
  THEN IF ~ToIntegerX(value) THEN typeerror_cleanup(meta, Signal_blocker)
       ELSE IF YDB_TYPE_IS32BIT(ydb_type.type) /\ value = "huge"
       THEN typeerror_cleanup(meta, Signal_blocker)
       ELSE meta
  ELSE IF ~ToNumberX(value) THEN typeerror_cleanup(meta, Signal_blocker)
  ELSE meta

RECURSIVE CastLoop(_, _, _, _, _)
\* the loop over type_list: it ends with the first cast that raises
CastLoop(meta, Signal_blocker, type_list, values, argi) ==
  IF argi > Len(type_list) \/ meta.raised THEN meta
  ELSE CastLoop(cast2ydb(meta, Signal_blocker, type_list[argi], values[argi]),
                Signal_blocker, type_list, values, argi + 1)

\* what cip_cleanup and ydb_assert make of a status that is not YDB_OK
CipFails(meta, Signal_blocker) == luaL_error(cip_cleanup(meta, Signal_blocker))

\* cip(ci_handle, routine, type_list, ...): switched, called and restored are
\* the statuses of ydb_ci_tab_switch, ydb_cip and the second
\* ydb_ci_tab_switch
cip_call(Signal_blocker, type_list, values, switched, called, restored) ==
  IF Len(values) < Len(type_list) THEN luaL_error(NoMeta)
  ELSE
    LET entered == invoke_signal_blocker(NoMeta, Signal_blocker, FALSE)
        cast    == CastLoop(entered, Signal_blocker, type_list, values, 1)
        status  == IF called = "YDB_OK" THEN restored ELSE called
    IN IF cast.raised THEN cast
       ELSE IF switched # "YDB_OK" THEN CipFails(cast, Signal_blocker)
       ELSE IF status = "ZLINKFILE"
       THEN luaL_error(cip_cleanup(cast, Signal_blocker))
       ELSE IF status # "YDB_OK" THEN CipFails(cast, Signal_blocker)
       ELSE cip_cleanup(cast, Signal_blocker)

NoCip == [op |-> "none", Signal_blocker |-> FALSE, type_list |-> <<>>,
          values |-> <<>>, status |-> <<>>, meta |-> NoMeta]

---------------------------------------------------------------------------
(* Transactions: tp and the registry reference of its callback *)

\* no transaction is running
NoTp == <<>>

\* luaL_ref has handed out no reference
NoRegistry == <<>>

\* luaL_ref(L, LUA_REGISTRYINDEX): the reference, not yet released, of a tp
\* call whose ydb_tp_s has not returned
luaL_ref == [unrefs |-> 0, status |-> "running"]

\* what tp does with its reference once ydb_tp_s has returned status: it
\* calls luaL_unref when status is LUA_YDB_ERR, and when status is any
\* other value but YDB_TP_RESTART
tp_exit(entry, status) ==
  IF status = "LUA_YDB_ERR"
  THEN [unrefs |-> entry.unrefs + 1, status |-> status]
  ELSE IF status # "YDB_TP_RESTART"
  THEN [unrefs |-> entry.unrefs + 1, status |-> status]
  ELSE [unrefs |-> entry.unrefs, status |-> status]

---------------------------------------------------------------------------
(* The calls, as steps.  objs is the memory; born[h] is the path handle h was
   built for, anc[h] the handles it was derived from, and last the call that
   was made last. *)

Handles == 1..Len(objs)

NoCall == [op |-> "none", h |-> 0, args |-> <<>>, res |-> 0, err |-> FALSE,
           nalloc |-> 0, idx |-> 0, text |-> <<>>, run |-> 0, key |-> <<>>,
           given |-> FALSE]

Call(op, h, args, res, nalloc) ==
  [NoCall EXCEPT !.op = op, !.h = h, !.args = args, !.res = res, !.nalloc = nalloc]

Raised(op, h, args) == [Call(op, h, args, 0, 0) EXCEPT !.err = TRUE]

Failed(op, h, args) ==
  /\ last' = Raised(op, h, args)
  /\ UNCHANGED <<objs, born, anc, cip, tp, registry>>

\* the outcomes of the comparisons with junk that one append call may make:
\* the loop compares only while the depth_used it started with is above the
\* depth it has reached
Oracles(mem, h, args) ==
  IF mem[mem[h].dereference].depth_used > mem[h].depth
  THEN [1..Len(args) -> BOOLEAN]
  ELSE {[i \in 1..Len(args) |-> FALSE]}

\* _yottadb.cachearray_create(varname, {subs})
CreateCall(subs, junk) ==
  IF CreateDepthError(subs) THEN Failed("create", 0, subs)
  ELSE
    /\ objs' = Append(objs, _cachearray_create(VarName, subs, junk, Len(objs)))
    /\ born' = Append(born, <<VarName>> \o subs)
    /\ anc'  = Append(anc, {})
    /\ UNCHANGED wrappers
    /\ last' = Call("create", 0, subs, Len(objs) + 1, 1)

\* Variant: the parameters after the table come before its entries.
CreateItems_RestFirst(has_t1, t1, rest) == rest \o (IF has_t1 THEN t1 ELSE <<>>)

\* the subscripts the loop of _cachearray_create takes: those of the table t1
\* when parameter #2 is a table, then the parameters after it
CreateItems(has_t1, t1, rest) == (IF has_t1 THEN t1 ELSE <<>>) \o rest

\* parameter #1 is not a string, or lua_tolstring rejects a subscript
CreateTypeError(varname, subs) ==
  varname = NotAString \/ \E i \in 1..Len(subs) : subs[i] = NotAString

\* _yottadb.cachearray_create(varname[, t1], ...)
CreateTableCall(varname, has_t1, t1, rest, junk) ==
  LET subs  == CreateItems(has_t1, t1, rest)
      given == [NoCall EXCEPT !.op = "create", !.text = varname, !.given = has_t1,
                              !.key = IF has_t1 THEN t1 ELSE <<>>, !.args = rest]
  IN IF CreateTypeError(varname, subs) \/ CreateDepthError(subs)
     THEN /\ last' = [given EXCEPT !.err = TRUE]
          /\ UNCHANGED <<objs, born, anc, cip, tp, registry>>
     ELSE /\ objs' = Append(objs, _cachearray_create(varname, subs, junk, Len(objs)))
          /\ born' = Append(born, <<varname>> \o subs)
          /\ anc'  = Append(anc, {})
          /\ UNCHANGED wrappers
          /\ last' = [given EXCEPT !.res = Len(objs) + 1, !.nalloc = 1]

\* _yottadb.cachearray_append(h, ...)
AppendCall(h, args, orc) ==
  IF AppendDepthError(objs, h) \/ AppendMaxError(objs, h, args)
  THEN Failed("append", h, args)
  ELSE
    LET r == cachearray_append(objs, h, args, orc) IN
    /\ objs' = r.mem
    /\ born' = IF r.err \/ r.res = h THEN born ELSE Append(born, born[h] \o args)
    /\ anc'  = IF r.err \/ r.res = h THEN anc ELSE Append(anc, anc[h] \cup {h})
    /\ UNCHANGED wrappers
    /\ last' = IF r.err THEN Raised("append", h, args)
               ELSE Call("append", h, args, r.res, r.nalloc)

\* _yottadb.cachearray_tomutable(h)
ToMutableCall(h) ==
  /\ objs' = Append(objs, cachearray_tomutable(objs, h))
  /\ born' = Append(born, born[h])
  /\ anc'  = Append(anc, anc[h] \cup {h})
  /\ UNCHANGED wrappers
  /\ last' = Call("tomutable", h, <<>>, Len(objs) + 1, 1)

\* 2 when this Substitute is made on the handle that a Substitute made just
\* before it returned, else 1
SubstRun(h) ==
  IF last.op = "subst" /\ ~last.err /\ last.res = h THEN 2 ELSE 1

\* _yottadb.cachearray_subst(h, string)
SubstCall(h, string) ==
  IF SubstError(objs, h) THEN Failed("subst", h, <<string>>)
  ELSE
    LET r == cachearray_subst(objs, h, string)
        path == [i \in 1..Len(born[h]) |->
                   IF i = Len(born[h]) THEN string ELSE born[h][i]]
    IN
    /\ objs' = r.mem
    /\ born' = IF r.res = h THEN [born EXCEPT ![h] = path] ELSE Append(born, path)
    /\ anc'  = IF r.res = h THEN anc ELSE Append(anc, anc[h] \cup {h})
    /\ UNCHANGED wrappers
    /\ last' = [Call("subst", h, <<string>>, r.res, r.nalloc)
                  EXCEPT !.run = SubstRun(h)]

\* the step a call on handle h makes when it ends with outcome r
Returned(op, h, args, r) ==
  /\ objs' = r.mem
  /\ born' = IF r.err \/ r.res = h THEN born
             ELSE IF Len(r.mem) = Len(objs) + 2
             THEN born \o <<born[h], born[h] \o args>>
             ELSE Append(born, born[h] \o args)
  /\ anc'  = IF r.err \/ r.res = h THEN anc
             ELSE IF Len(r.mem) = Len(objs) + 2
             THEN anc \o <<anc[h] \cup {h}, anc[h] \cup {h}>>
             ELSE Append(anc, anc[h] \cup {h})
  /\ UNCHANGED wrappers
  /\ last' = IF r.err THEN Raised(op, h, args)
             ELSE Call(op, h, args, r.res, r.nalloc)

\* _yottadb.cachearray_create(h, ...)
CreateFromCall(h, args, orc) ==
  IF CopyDepthError(objs, h) THEN Failed("createfrom", h, args)
  ELSE Returned("createfrom", h, args, cachearray_create(objs, h, args, orc))

\* _yottadb.cachearray_subscript(h, i)
SubscriptCall(h, i) ==
  LET t == cachearray_subscript(objs, h, i) IN
  /\ last' = [NoCall EXCEPT !.op = "subscript", !.h = h, !.idx = i,
                            !.err = (t = DomainError),
                            !.text = IF t = DomainError THEN <<>> ELSE t]
  /\ UNCHANGED <<objs, born, anc, cip, tp, registry>>

\* _yottadb.cachearray_tostring(h) when ~given, cachearray_tostring(h, d)
\* when given
ToStringCall(h, given, d) ==
  LET depth == IF given THEN d ELSE objs[h].depth
      shown == [NoCall EXCEPT !.op = "tostring", !.h = h, !.given = given,
                              !.idx = depth]
  IN /\ last' = IF ToStringError(objs, h, depth)
                THEN [shown EXCEPT !.err = TRUE]
                ELSE [shown EXCEPT
                        !.text = cachearray_tostring(objs, h, depth).subscript_list,
                        !.key  = <<cachearray_tostring(objs, h, depth).varname>>]
     /\ UNCHANGED <<objs, born, anc, cip, tp, registry>>

\* _yottadb.get(h): the node ydb_get_s is asked for
GetCall(h) ==
  LET g == getsubs(objs, h) IN
  /\ last' = [NoCall EXCEPT !.op = "get", !.h = h, !.idx = g.subs_used,
                            !.key = <<g.varname>> \o g.subsarray]
  /\ UNCHANGED <<objs, born, anc, cip, tp, registry>>

Init ==
  /\ objs = <<>>
  /\ born = <<>>
  /\ anc  = <<>>
  /\ last = NoCall
  /\ cip = NoCip
  /\ tp = NoTp
  /\ registry = NoRegistry

\* the caller holds at most MaxObjs userdata, and a run is followed up to
\* its first error
Room == Len(objs) < MaxObjs /\ ~last.err

Create == Room /\ \E subs \in CreateLists : CreateCall(subs, 0)

AppendSubs ==
  /\ Room
  /\ \E h \in Handles : \E args \in ArgLists : \E orc \in Oracles(objs, h, args) :
        AppendCall(h, args, orc)

ToMutable == Room /\ \E h \in Handles : ToMutableCall(h)

Substitute == Room /\ \E h \in Handles : \E string \in Strs : SubstCall(h, string)

Next == Create \/ AppendSubs \/ ToMutable \/ Substitute

Spec == Init /\ [][Next]_vars

---------------------------------------------------------------------------
(* Descending one subscript at a time: a path is created and then extended
   through the handle returned last, as a node is walked depth-first. *)

ChainLists == CreateLists \cup {<<SA, SH>>}

ChainStrs == {SA, SL}

Latest == Len(objs)

ChainCreate ==
  /\ objs = <<>>
  /\ \E subs \in ChainLists : \E junk \in JunkShorts : CreateCall(subs, junk)

ChainAppend ==
  /\ objs # <<>>
  /\ objs[Latest].depth < MaxChain
  /\ \E string \in ChainStrs : \E orc \in Oracles(objs, Latest, <<string>>) :
       AppendCall(Latest, <<string>>, orc)

NextChain == ChainCreate \/ ChainAppend

SpecChain == Init /\ [][NextChain]_vars

---------------------------------------------------------------------------
(* Creating a path from texts of any length. *)

AnyStrs == {SA, SB, SL, SH}

AnyLists == {<<>>} \cup {<<s>> : s \in AnyStrs} \cup {<<s, t>> : s, t \in AnyStrs}
            \cup {<<s, t, u>> : s, t, u \in AnyStrs}

CreateAny ==
  /\ objs = <<>>
  /\ \E subs \in AnyLists : \E junk \in JunkShorts : CreateCall(subs, junk)

NextCreate == CreateAny

SpecCreate == Init /\ [][NextCreate]_vars

---------------------------------------------------------------------------
(* Iterating over siblings: a path is made mutable and its last subscript
   replaced again and again, among the other calls. *)

IterLists == {<<>>, <<SA>>}

IterArgs == {<<>>, <<SA>>, <<SL, SL>>}

IterStrs == {SB, SL}

IterRoom == Len(objs) < MaxObjs /\ ~last.err

IterCreate == IterRoom /\ \E subs \in IterLists : CreateCall(subs, 0)

IterAppend ==
  /\ IterRoom
  /\ \E h \in Handles : \E args \in IterArgs : \E orc \in Oracles(objs, h, args) :
        AppendCall(h, args, orc)

IterToMutable == IterRoom /\ \E h \in Handles : ToMutableCall(h)

IterCreateFrom ==
  /\ IterRoom
  /\ \E h \in Handles : \E args \in IterArgs : \E orc \in Oracles(objs, h, args) :
        CreateFromCall(h, args, orc)

IterSubstitute ==
  /\ Len(objs) <= MaxObjs
  /\ ~last.err
  /\ \E h \in Handles : \E string \in IterStrs : SubstCall(h, string)

NextIter ==
  IterCreate \/ IterAppend \/ IterToMutable \/ IterCreateFrom \/ IterSubstitute

SpecIter == Init /\ [][NextIter]_vars

---------------------------------------------------------------------------
(* Paths at the engine's maximum number of subscripts. *)

Repeat(string, k) == [i \in 1..k |-> string]

DeepLists ==
  {Repeat(string, k) : string \in {SA, SB},
                       k \in (YDB_MAX_SUBS - 2)..(YDB_MAX_SUBS + 1)}

DeepArgs == {<<>>, <<SA>>, <<SB>>, <<SA, SA>>, <<SA, SB>>, <<SB, SA>>, <<SA, SA, SA>>}

DeepCreate ==
  /\ objs = <<>>
  /\ ~last.err
  /\ \E subs \in DeepLists : CreateCall(subs, 0)

DeepAppend ==
  /\ Len(objs) < MaxObjs
  /\ ~last.err
  /\ \E h \in Handles : \E args \in DeepArgs : \E orc \in Oracles(objs, h, args) :
        AppendCall(h, args, orc)

NextDeep == DeepCreate \/ DeepAppend

SpecDeep == Init /\ [][NextDeep]_vars

---------------------------------------------------------------------------
(* Reading subscripts back. *)

ReadIdx == (0 - MaxIdx)..MaxIdx

Reading == last.op = "subscript"

ReadCreate ==
  /\ objs = <<>>
  /\ \E subs \in CreateLists : CreateCall(subs, 0)

ReadAppend ==
  /\ Len(objs) < MaxRead
  /\ ~last.err /\ ~Reading
  /\ \E h \in Handles : \E args \in ArgLists : \E orc \in Oracles(objs, h, args) :
        AppendCall(h, args, orc)

ReadSubscript ==
  /\ ~last.err /\ ~Reading
  /\ \E h \in Handles : \E i \in ReadIdx : SubscriptCall(h, i)

NextRead == ReadCreate \/ ReadAppend \/ ReadSubscript

SpecRead == Init /\ [][NextRead]_vars

---------------------------------------------------------------------------
(* Calls that raise: an argument of the wrong type, a cachearray that is not
   mutable. *)

ErrArgs == {<<SA>>, <<SB>>, <<SA, SL>>, <<SB, NotAString>>, <<NotAString>>}

ErrCreate ==
  /\ objs = <<>>
  /\ \E subs \in CreateLists : CreateCall(subs, 0)

ErrAppend ==
  /\ Room
  /\ \E h \in Handles : \E args \in ErrArgs : \E orc \in Oracles(objs, h, args) :
        AppendCall(h, args, orc)

ErrSubstitute == Room /\ \E h \in Handles : SubstCall(h, SB)

NextErr == ErrCreate \/ ErrAppend \/ ErrSubstitute

SpecErr == Init /\ [][NextErr]_vars

---------------------------------------------------------------------------
(* Database calls on cachearrays. *)

Asked == last.op = "get"

DbCreate ==
  /\ objs = <<>>
  /\ \E subs \in CreateLists : CreateCall(subs, 0)

DbAppend ==
  /\ Len(objs) < MaxObjs
  /\ ~last.err /\ ~Asked
  /\ \E h \in Handles : \E args \in ArgLists : \E orc \in Oracles(objs, h, args) :
        AppendCall(h, args, orc)

DbGet ==
  /\ ~last.err /\ ~Asked
  /\ \E h \in Handles : GetCall(h)

NextDb == DbCreate \/ DbAppend \/ DbGet

SpecDb == Init /\ [][NextDb]_vars

---------------------------------------------------------------------------
(* Showing paths. *)

N1 == <<Zero + 1>>

N10 == <<Zero + 1, Zero>>

N01 == <<Zero, Zero + 1>>

NNeg == <<Minus, Zero + 5>>

NFrac == <<Zero + 1, Point, Zero + 5>>

NFloat == <<Zero + 1, Point, Zero>>

TQuote == <<97, Quote, Comma, 98>>

TName == <<97>>

ShowStrs == {N1, N10, N01, NNeg, NFrac, NFloat, TQuote, TName, <<>>}

ShowLists == {<<>>} \cup {<<s>> : s \in ShowStrs}
             \cup {<<N1, NFrac>>, <<TQuote, N10>>, <<TName, <<>>>>}

ShowArgs == {<<N1>>, <<NFrac>>, <<TQuote>>, <<N10, TName>>}

Showing == last.op = "tostring"

ShowCreate ==
  /\ objs = <<>>
  /\ \E subs \in ShowLists : CreateCall(subs, 0)

ShowAppend ==
  /\ Len(objs) < MaxRead
  /\ ~last.err /\ ~Showing
  /\ \E h \in Handles : \E args \in ShowArgs : \E orc \in Oracles(objs, h, args) :
        AppendCall(h, args, orc)

ShowToString ==
  /\ ~last.err /\ ~Showing
  /\ \E h \in Handles :
       \/ ToStringCall(h, FALSE, 0)
       \/ \E d \in (0 - 1)..MaxShow : ToStringCall(h, TRUE, d)

NextShow == ShowCreate \/ ShowAppend \/ ShowToString

SpecShow == Init /\ [][NextShow]_vars

---------------------------------------------------------------------------
(* Creating from a name, a table of subscripts and further subscripts. *)

VarNames == {VarName, NotAString}

Tables == {<<>>, <<SA>>, <<SL>>, <<SA, SB>>, <<SB, SH>>, <<NotAString>>,
           <<SA, NotAString>>}

Rests == {<<>>, <<SA>>, <<SB>>, <<SA, SL>>, <<SL, SB>>, <<SH>>, <<NotAString>>}

TableCreate ==
  /\ objs = <<>>
  /\ last.op = "none"
  /\ \E varname \in VarNames : \E has_t1 \in BOOLEAN : \E t1 \in Tables :
       \E rest \in Rests : \E junk \in JunkShorts :
         CreateTableCall(varname, has_t1, IF has_t1 THEN t1 ELSE <<>>, rest, junk)

NextTable == TableCreate

SpecTable == Init /\ [][NextTable]_vars

---------------------------------------------------------------------------
(* Allocation sizes: paths of short and of very long texts are created,
   extended, made mutable and changed. *)

AllocLists == {<<>>, <<SA>>, <<SA, SL>>, <<SH>>, <<SA, SH>>, <<SH, SA>>,
               <<SH, SL, SA>>}

AllocArgs == {<<SA>>, <<SL>>, <<SL, SA>>, <<SA, SL>>}

AllocStrs == {SB, SL}

AllocRoom == Len(objs) < MaxRead /\ ~last.err

AllocCreate ==
  /\ objs = <<>>
  /\ \E subs \in AllocLists : \E junk \in JunkShorts : CreateCall(subs, junk)

AllocAppend ==
  /\ objs # <<>>
  /\ AllocRoom
  /\ \E h \in Handles : \E args \in AllocArgs : \E orc \in Oracles(objs, h, args) :
        AppendCall(h, args, orc)

AllocToMutable == objs # <<>> /\ AllocRoom /\ \E h \in Handles : ToMutableCall(h)

AllocSubstitute ==
  /\ ~last.err
  /\ last.op # "subst"
  /\ \E h \in Handles : \E string \in AllocStrs : SubstCall(h, string)

NextAlloc == AllocCreate \/ AllocAppend \/ AllocToMutable \/ AllocSubstitute

SpecAlloc == Init /\ [][NextAlloc]_vars

---------------------------------------------------------------------------
(* Garbage collection: the program drops its reference to a userdata, and
   Lua reclaims it unless it is the uservalue of a userdata that is alive. *)

GcLists == {<<>>, <<SA>>}

GcArgs == {<<>>, <<SA>>, <<SB>>, <<SL>>}

Live == {h \in Handles : objs[h].kind # "reclaimed"}

KeptAlive(a) ==
  \E u \in Live \ {a} : objs[u].kind = "deferred" /\ objs[u].uservalue = a

GcRoom == Len(objs) < MaxObjs /\ ~last.err

GcCreate == GcRoom /\ \E subs \in GcLists : CreateCall(subs, 0)

GcAppend ==
  /\ GcRoom
  /\ \E h \in Live : \E args \in GcArgs : \E orc \in Oracles(objs, h, args) :
        AppendCall(h, args, orc)

GcCollect ==
  /\ ~last.err
  /\ \E a \in Live :
       /\ ~KeptAlive(a)
       /\ objs' = [objs EXCEPT ![a] = Reclaimed(a)]
       /\ last' = [NoCall EXCEPT !.op = "collect", !.h = a]
       /\ UNCHANGED <<born, anc, cip, tp, registry>>

NextGc == GcCreate \/ GcAppend \/ GcCollect

SpecGc == Init /\ [][NextGc]_vars

---------------------------------------------------------------------------
(* Calling M routines: the signal blocker is installed or not, and cip is
   called with parameters that do or do not fit its type list, the engine
   answering with any status. *)

\* the largest number of type_spec entries of a call
MaxParams == 2

TypeSpecs ==
  {[type |-> YDB_INT_T,        input |-> TRUE,  output |-> FALSE],
   [type |-> YDB_DOUBLE_T_PTR, input |-> TRUE,  output |-> TRUE],
   [type |-> YDB_CHAR_T_PTR,   input |-> FALSE, output |-> TRUE],
   [type |-> YDB_STRING_T_PTR, input |-> TRUE,  output |-> TRUE],
   [type |-> YDB_BUFFER_T_PTR, input |-> TRUE,  output |-> FALSE],
   [type |-> YDB_BUFFER_T_PTR, input |-> FALSE, output |-> TRUE],
   [type |-> InvalidStrType,   input |-> TRUE,  output |-> FALSE]}

TypeLists == UNION {[1..k -> TypeSpecs] : k \in 0..MaxParams}

\* the parameters given: as many as the type list asks for, or one less
ValueLists(type_list) ==
  UNION {[1..k -> LuaValues] : k \in (Len(type_list) - 1)..Len(type_list)}

SwitchStatuses == {"YDB_OK", "YDB_ERR"}

CallStatuses == {"YDB_OK", "ZLINKFILE", "YDB_ERR"}

\* _yottadb.init(yottadb.block_M_signals): the blocker is installed and
\* invoked with true
CipInit ==
  /\ cip.op = "none"
  /\ cip' = [cip EXCEPT !.op = "init", !.Signal_blocker = TRUE,
                        !.meta = invoke_signal_blocker(NoMeta, TRUE, TRUE)]
  /\ UNCHANGED <<objs, born, anc, last, tp, registry>>

CipCall ==
  /\ cip.op \in {"none", "init"}
  /\ \E type_list \in TypeLists : \E values \in ValueLists(type_list) :
       \E switched \in SwitchStatuses : \E called \in CallStatuses :
         \E restored \in SwitchStatuses :
           cip' = [cip EXCEPT
                     !.op = "cip", !.type_list = type_list, !.values = values,
                     !.status = <<switched, called, restored>>,
                     !.meta = cip_call(cip.Signal_blocker, type_list, values,
                                       switched, called, restored)]
  /\ UNCHANGED <<objs, born, anc, last, tp, registry>>

NextCip == CipInit \/ CipCall

SpecCip == Init /\ [][NextCip]_vars

---------------------------------------------------------------------------
(* Transactions, nested or not: tp takes a registry reference for its
   callback, the engine runs the callback, again after a restart of the
   outermost transaction, and hands tp a status. *)

\* the largest number of tp calls followed
MaxRefs == 4

\* the deepest nesting of transactions
MaxNest == 2

\* the largest number of times the engine runs one callback
MaxRuns == 2

TpStatuses ==
  {"YDB_OK", "YDB_TP_RESTART", "YDB_TP_ROLLBACK", "LUA_YDB_ERR", "YDB_ERR"}

\* _yottadb.tp(f) up to the first run of the callback
TpEnter ==
  /\ Len(registry) < MaxRefs
  /\ Len(tp) < MaxNest
  /\ registry' = Append(registry, luaL_ref)
  /\ tp' = Append(tp, [ref |-> Len(registry) + 1, runs |-> 1])
  /\ UNCHANGED <<objs, born, anc, last, cip>>

\* the callback of the outermost transaction asks for a restart and the
\* engine runs it again
TpRestart ==
  /\ Len(tp) = 1
  /\ tp[1].runs < MaxRuns
  /\ tp' = [tp EXCEPT ![1].runs = @ + 1]
  /\ UNCHANGED <<objs, born, anc, last, cip, registry>>

\* ydb_tp_s returns to the innermost tp, which ends; a restart is handed to
\* a nested tp only
TpReturn ==
  /\ tp # <<>>
  /\ \E status \in TpStatuses :
       /\ status = "YDB_TP_RESTART" => Len(tp) > 1
       /\ registry' = [registry EXCEPT
                         ![tp[Len(tp)].ref] = tp_exit(@, status)]
  /\ tp' = SubSeq(tp, 1, Len(tp) - 1)
  /\ UNCHANGED <<objs, born, anc, last, cip>>

NextTp == TpEnter \/ TpRestart \/ TpReturn

SpecTp == Init /\ [][NextTp]_vars

---------------------------------------------------------------------------
(* Properties of the copy-on-write handles. *)

Array(h) == objs[objs[h].dereference]

Called(op) == last'.op = op /\ ~last'.err

(* SubscriptAt(h, i) is a determined text and that text is `text`. *)
Reads(mem, h, i, text) ==
  cachearray_subscript(mem, h, i) = text /\ Definite(text)

(* C1: an operation on a handle derived from p (Append or ToMutable on p or
   on a handle obtained from p, Substitute on such a derived handle) leaves
   Depth(p) unchanged and every SubscriptAt(p, i), 0 <= i <= Depth(p), equal
   to the text it was before the operation. *)
C1_ViewInvariant ==
  [][\A p \in Handles :
       ( /\ ~last'.err
         /\ \/ last'.op \in {"append", "tomutable", "subst"} /\ p \in anc[last'.h]
            \/ last'.op \in {"append", "tomutable"} /\ p = last'.h )
       => /\ objs'[p].depth = objs[p].depth
          /\ \A i \in 0..objs[p].depth :
               Reads(objs', p, i, cachearray_subscript(objs, p, i))]_vars

(* C2: a non-mutable handle keeps its depth and the text of every one of its
   indices across any operation performed on another handle. *)
C2_NonMutableImmutable ==
  [][\A h \in Handles :
       (~IsMutable(Array(h)) /\ last'.op # "none" /\ last'.h # h)
       => /\ objs'[h].depth = objs[h].depth
          /\ Path(objs', h) = Path(objs, h)]_vars

(* C3: Append(h, t1..tk) returns r with Depth(r) = Depth(h) + k, the texts
   of h at indices 0..Depth(h) and tj at index Depth(h) + j, however many
   times the buffer was extended in place or forked during the call. *)
C3_AppendResult ==
  [][Called("append") =>
       LET h == last'.h
           r == last'.res
           args == last'.args
       IN /\ objs'[r].depth = objs[h].depth + Len(args)
          /\ \A i \in 0..objs[h].depth :
               cachearray_subscript(objs', r, i) = cachearray_subscript(objs, h, i)
          /\ \A j \in 1..Len(args) :
               cachearray_subscript(objs', r, objs[h].depth + j) = args[j]]_vars

(* C4: every live handle has 0 <= depth <= depth_used of the buffer it
   resolves to, so no operation reports a corrupt depth. *)
C4_DepthWithinUsed ==
  \A h \in Handles :
    /\ 0 <= objs[h].depth
    /\ objs[h].depth <= Array(h).depth_used

(* C5: however many times a path is extended one subscript at a time (the
   buffer being regrown whenever its descriptor slots or its text region run
   out), the handle returned reads back the name and every subscript given,
   in order. *)
C5_GrowthKeepsPath ==
  (last.op = "append" /\ ~last.err) => Path(objs, last.res) = born[last.res]

(* C6: Create(name, s1..sn) returns an owned, non-mutable buffer of depth n
   with depth_used = n that reads name at index 0 and si at index i, also
   when the texts total more than YDB_LARGE_SUBSLEN bytes. *)
C6_CreateResult ==
  (last.op = "create" /\ ~last.err) =>
    LET r == objs[last.res]
    IN /\ r.kind = "array"
       /\ r.dereference = last.res
       /\ ~IsMutable(r)
       /\ r.depth = Len(last.args)
       /\ r.depth_used = Len(last.args)
       /\ Path(objs, last.res) = <<VarName>> \o last.args

InPlaceCase(p, string) ==
  /\ objs[p].kind = "array"
  /\ ~IsMutable(objs[p])
  /\ objs[p].depth < objs[p].depth_alloc
  /\ get_subslen(objs[p], objs[p].depth) + Len(string) <= objs[p].subsdata_alloc
  /\ objs[p].depth_used <= objs[p].depth

(* C7: Append(p, t) on an owned, non-mutable p with a free descriptor slot,
   room for the text and slot Depth(p) unused allocates no buffer: it returns
   a new view of p's own buffer, one deeper, and p and the view read the
   same descriptors and bytes at indices 0..Depth(p). *)
C7_InPlaceReturnsView ==
  [][(last'.op = "append" /\ Len(last'.args) = 1
        /\ InPlaceCase(last'.h, last'.args[1]))
     => LET p == last'.h
            r == last'.res
        IN /\ ~last'.err
           /\ last'.nalloc = 0
           /\ r = Len(objs) + 1
           /\ objs'[r].kind = "deferred"
           /\ objs'[r].dereference = p
           /\ objs'[r].depth = objs[p].depth + 1
           /\ cachearray_subscript(objs', r, objs[p].depth + 1) = last'.args[1]
           /\ \A i \in 0..objs[p].depth :
                /\ objs'[p].el[i + 1] = objs[p].el[i + 1]
                /\ cachearray_subscript(objs', r, i) = cachearray_subscript(objs', p, i)
                /\ cachearray_subscript(objs', p, i) = cachearray_subscript(objs, p, i)]_vars

C7_Witness ==
  /\ last.op = "append" /\ ~last.err /\ Len(last.args) = 1 /\ last.nalloc = 0
  /\ objs[last.h].kind = "array" /\ ~IsMutable(objs[last.h])
  /\ objs[last.res].kind = "deferred"
  /\ objs[last.res].dereference = last.h
  /\ objs[last.h].depth_used = objs[last.h].depth + 1

(* C8: Append leaves the depth and the flags of the handle it was given as
   they were; when it extends in place and the new depth differs from the
   owned buffer's own depth, it returns a new view carrying the new depth. *)
C8_InputHandleKept ==
  [][last'.op = "append"
     => LET h == last'.h
            a == objs[h].dereference
            depth2 == objs[h].depth + Len(last'.args)
        IN /\ objs'[h].depth = objs[h].depth
           /\ objs'[h].flags = objs[h].flags
           /\ (~last'.err /\ last'.nalloc = 0 /\ depth2 # objs[a].depth)
              => /\ last'.res = Len(objs) + 1
                 /\ objs'[last'.res].kind = "deferred"
                 /\ objs'[last'.res].dereference = a
                 /\ objs'[last'.res].depth = depth2]_vars

C8_Witness ==
  /\ last.op = "append" /\ ~last.err /\ last.nalloc = 0 /\ Len(last.args) >= 1
  /\ objs[last.h].kind = "deferred"
  /\ last.res # last.h
  /\ objs[last.res].kind = "deferred"
  /\ objs[last.res].depth = objs[last.h].depth + Len(last.args)

AppendForksMutable(args) ==
  LET m == last'.h
      r == last'.res
  IN (Called("append") /\ last'.args = args /\ IsMutable(Array(m)))
     => /\ objs'[r].dereference # objs[m].dereference
        /\ r = Len(objs) + 1
        /\ objs'[r].kind = "array"
        /\ ~IsMutable(objs'[r])
        /\ last'.nalloc >= 1

(* C9 as stated: Append on a mutable handle, with every argument list,
   returns a newly allocated non-mutable buffer, never the handle's own. *)
C9_AlwaysForks ==
  [][\A args \in ArgLists : AppendForksMutable(args)]_vars

(* C9: Append on a mutable handle, with every non-empty argument list,
   returns a newly allocated non-mutable buffer, never the handle's own. *)
C9_ForksWhenAppending ==
  [][\A args \in ArgLists \ {<<>>} : AppendForksMutable(args)]_vars

C9_Witness ==
  /\ last.op = "append" /\ ~last.err /\ Len(last.args) >= 1
  /\ IsMutable(Array(last.h))
  /\ objs[last.res].kind = "array"
  /\ ~IsMutable(objs[last.res])
  /\ last.res # objs[last.h].dereference

(* C10: ToMutable(h) returns a new owned, mutable buffer, distinct from the
   one h resolves to, with Depth and every SubscriptAt equal to h's; h, its
   buffer and its flags stay as they were. *)
C10_ToMutableResult ==
  [][Called("tomutable")
     => LET h == last'.h
            m == last'.res
        IN /\ m = Len(objs) + 1
           /\ objs'[m].kind = "array"
           /\ objs'[m].dereference = m
           /\ m # objs[h].dereference
           /\ IsMutable(objs'[m])
           /\ objs'[m].depth = objs[h].depth
           /\ \A i \in 0..objs[h].depth :
                cachearray_subscript(objs', m, i) = cachearray_subscript(objs, h, i)
           /\ objs'[h] = objs[h]
           /\ objs'[objs[h].dereference] = objs[objs[h].dereference]]_vars

ValidHandle(h) == 0 <= objs[h].depth /\ objs[h].depth <= Array(h).depth_used

(* C11: for every valid handle h, also one whose depth is below the
   depth_used of its buffer, the result of ToMutable(h) has depth equal to
   depth_used, and Substitute accepts it. *)
C11_ToMutableFitsSubstitute ==
  [][(Called("tomutable") /\ ValidHandle(last'.h))
     => /\ objs'[last'.res].depth = objs'[last'.res].depth_used
        /\ ~SubstError(objs', last'.res)]_vars

(* C12: Substitute(m, x) on a mutable handle of depth d >= 1 returns a
   handle r that is still mutable, of depth d, that reads x at index d and at
   every index below d what m read before the call, whether x fitted in place
   or the buffer was reallocated. *)
C12_SubstituteResult ==
  [][(Called("subst") /\ objs[last'.h].depth >= 1)
     => LET m == last'.h
            r == last'.res
            d == objs[m].depth
        IN /\ IsMutable(objs'[objs'[r].dereference])
           /\ objs'[r].depth = d
           /\ Reads(objs', r, d, last'.args[1])
           /\ \A i \in 0..(d - 1) :
                Reads(objs', r, i, cachearray_subscript(objs, m, i))
           /\ (last'.nalloc = 0) = (r = m)]_vars

C12_Witness ==
  /\ last.op = "subst" /\ ~last.err /\ last.nalloc = 1
  /\ objs[last.res].depth >= 1
  /\ last.res # last.h
  /\ IsMutable(objs[last.res])
  /\ cachearray_subscript(objs, last.res, objs[last.res].depth) = last.args[1]

(* C13 as stated: after two Substitute calls on the same handle m, the second
   with y, m reads y at the place of its last subscript (index depth - 1, or
   index depth counting the name as index 0) whatever the length of y. *)
C13_SubstituteTwice ==
  [][(Called("subst") /\ last.op = "subst" /\ ~last.err /\ last.h = last'.h
        /\ objs[last'.h].depth >= 1)
     => LET m == last'.h
            d == objs[m].depth
        IN \/ cachearray_subscript(objs', m, d - 1) = last'.args[1]
           \/ cachearray_subscript(objs', m, d) = last'.args[1]]_vars

(* C13: after r1 = Substitute(m, x) and r2 = Substitute(r1, y), r2 has the
   depth d of m, reads y at index d and, at every index below d, what r1 and
   m read there; x and y may have any length. *)
C13_SubstituteChain ==
  [][(Called("subst") /\ last'.run = 2)
     => LET r1 == last'.h
            r2 == last'.res
            d  == objs[r1].depth
        IN /\ objs'[r2].depth = d
           /\ Reads(objs', r2, d, last'.args[1])
           /\ \A i \in 0..(d - 1) :
                /\ Reads(objs', r2, i, cachearray_subscript(objs, r1, i))
                /\ cachearray_subscript(objs, r1, i) = born[r1][i + 1]]_vars

C13_Witness ==
  /\ last.op = "subst" /\ ~last.err /\ last.run = 2
  /\ objs[last.res].depth >= 1
  /\ last.nalloc = 1
  /\ Path(objs, last.res) = born[last.res]

(* C14: Substitute raises, leaving every buffer as it was, exactly when the
   buffer the handle resolves to is not mutable or the handle's depth is not
   that buffer's depth_used. *)
C14_SubstituteErrorIff ==
  [][last'.op = "subst"
     => LET h == last'.h
        IN /\ last'.err <=> (~IsMutable(Array(h)) \/ objs[h].depth # Array(h).depth_used)
           /\ last'.err => objs' = objs]_vars

C14_Witness ==
  /\ last.op = "subst" /\ last.err
  /\ IsMutable(Array(last.h))
  /\ objs[last.h].depth # Array(last.h).depth_used

NoViewOfMutable ==
  \A h \in Handles : objs[h].kind = "deferred" => ~IsMutable(Array(h))

OneHandlePerMutable ==
  \A a \in Handles :
    (objs[a].kind = "array" /\ IsMutable(objs[a]))
    => {h \in Handles : objs[h].dereference = a} = {a}

(* C15: no view resolves to a mutable buffer and a mutable buffer is referred
   to by one handle only, so that a Substitute leaves what every other handle
   reads as it was. *)
C15_MutableNotShared ==
  [][/\ NoViewOfMutable /\ OneHandlePerMutable
     /\ Called("subst")
        => \A h \in Handles \ {last'.h} :
             \A i \in 0..objs[h].depth :
               IF last'.nalloc = 0
               THEN cachearray_subscript(objs', h, i) = cachearray_subscript(objs, h, i)
               ELSE Reads(objs', h, i, cachearray_subscript(objs, h, i))]_vars

(* C16: cachearray_create(x, ...) returns a handle whose buffer is not
   mutable; when x is mutable the result resolves to another buffer that reads
   x's path followed by the appended subscripts, and x stays mutable with its
   contents as they were. *)
C16_CreateFromNotMutable ==
  [][Called("createfrom")
     => LET x == last'.h
            r == last'.res
            d == objs[x].depth
        IN /\ ~IsMutable(objs'[objs'[r].dereference])
           /\ IsMutable(Array(x))
              => /\ objs'[r].dereference # objs[x].dereference
                 /\ objs'[r].depth = d + Len(last'.args)
                 /\ \A i \in 0..d :
                      Reads(objs', r, i, cachearray_subscript(objs, x, i))
                 /\ \A j \in 1..Len(last'.args) :
                      Reads(objs', r, d + j, last'.args[j])
                 /\ objs'[x] = objs[x]]_vars

(* C17: Create with more than YDB_MAX_SUBS subscripts raises before any
   buffer is allocated, Append to a depth above YDB_MAX_SUBS raises before
   any slot, text byte or depth_used is written, and a call that does not
   raise keeps every subscript it was given. *)
C17_MaximumDepthRejected ==
  [][/\ (last'.op = "create" /\ Len(last'.args) > YDB_MAX_SUBS)
        => (last'.err /\ objs' = objs)
     /\ (last'.op = "append" /\ objs[last'.h].depth + Len(last'.args) > YDB_MAX_SUBS)
        => (last'.err /\ objs' = objs)
     /\ Called("create") => objs'[last'.res].depth = Len(last'.args)
     /\ Called("append")
        => objs'[last'.res].depth = objs[last'.h].depth + Len(last'.args)]_vars

C17_Witness ==
  /\ last.op = "append" /\ last.err
  /\ ValidHandle(last.h)
  /\ objs[last.h].depth <= YDB_MAX_SUBS
  /\ objs[last.h].depth + Len(last.args) > YDB_MAX_SUBS

(* C18 as stated: SubscriptAt(h, i) raises for every i outside
   [0, Depth(h)], so for Depth(h) + 1 and for -1. *)
C18_OutsideRangeRaises ==
  (last.op = "subscript" /\ (last.idx < 0 \/ last.idx > objs[last.h].depth))
  => last.err

(* C18: SubscriptAt(h, i) raises for every i > Depth(h), so for
   Depth(h) + 1; for -(Depth(h) + 1) <= i <= -1 it does not raise and reads
   index Depth(h) + 1 + i, so that -1 reads the last subscript. *)
C18_AboveDepthRaises ==
  last.op = "subscript"
  => LET d == objs[last.h].depth
     IN /\ last.idx > d => last.err
        /\ (0 - (d + 1) <= last.idx /\ last.idx <= 0 - 1)
           => /\ ~last.err
              /\ last.text = ElText(objs, Array(last.h), objs[last.h].dereference,
                                    Array(last.h).el[d + 2 + last.idx])

C18_Witness ==
  /\ last.op = "subscript" /\ ~last.err
  /\ last.idx = 0 - 1
  /\ objs[last.h].depth >= 1
  /\ last.text = born[last.h][Len(born[last.h])]

(* C19: cachearray_subscript(h, 0) returns the variable name, and for
   1 <= n <= Depth(h) cachearray_subscript(h, -n) returns the text that
   cachearray_subscript(h, Depth(h) + 1 - n) returns. *)
C19_NegativeIndexCountsBack ==
  (last.op = "subscript" /\ ~last.err)
  => LET d == objs[last.h].depth
     IN /\ last.idx = 0 => last.text = VarName
        /\ (last.idx < 0 /\ 0 - last.idx <= d)
           => last.text = cachearray_subscript(objs, last.h, d + 1 + last.idx)

C19_Witness ==
  /\ last.op = "subscript" /\ ~last.err
  /\ last.idx = 0 - 2
  /\ objs[last.h].depth = 2
  /\ last.text = cachearray_subscript(objs, last.h, 1)
  /\ last.text # cachearray_subscript(objs, last.h, 2)

(* C20: after a call has raised, every handle that existed before it has
   the depth it had and reads what it read at every index, and the
   depth_used of every buffer is what it was. *)
C20_ErrorLeavesState ==
  [][last'.err
     => \A h \in Handles :
          /\ objs'[h].depth = objs[h].depth
          /\ objs'[h].depth_used = objs[h].depth_used
          /\ Path(objs', h) = Path(objs, h)]_vars

(* C21: when Append raises because an argument is neither a string nor a
   number, whatever its position, the call has written no descriptor and no
   text byte of any buffer. *)
C21_BadArgumentWritesNothing ==
  [][(last'.op = "append" /\ last'.err
        /\ \E j \in 1..Len(last'.args) : last'.args[j] = NotAString)
     => objs' = objs]_vars

MutableArrays == {a \in Handles : objs[a].kind = "array" /\ IsMutable(objs[a])}

(* C22 as stated: a buffer flagged mutable has depth_alloc = depth_used, after
   ToMutable and after every Substitute. *)
C22_MutableHasNoSpareSlot ==
  \A a \in MutableArrays : objs[a].depth_alloc = objs[a].depth_used

(* C22: a buffer flagged mutable has depth_alloc = depth + ARRAY_OVERALLOC,
   depth being the depth of its handle, after ToMutable and after every
   Substitute, also one that reallocated. *)
C22_MutableHasSpareSlots ==
  \A a \in MutableArrays : objs[a].depth_alloc = objs[a].depth + ARRAY_OVERALLOC

C22_Witness ==
  /\ last.op = "subst" /\ ~last.err /\ last.nalloc = 1
  /\ last.res \in MutableArrays
  /\ objs[last.res].depth_alloc = objs[last.res].depth + ARRAY_OVERALLOC
  /\ objs[last.res].depth_alloc > objs[last.res].depth_used

(* C23: for every handle, its depth is at most the depth_alloc of the buffer
   it resolves to, that buffer's depth_used is at most its depth_alloc, and
   the buffer has exactly the descriptors varname and subs[0..depth_alloc-1],
   so that none is written at or beyond slot depth_alloc. *)
C23_DepthWithinAlloc ==
  \A h \in Handles :
    /\ objs[h].depth <= Array(h).depth_alloc
    /\ Array(h).depth_used <= Array(h).depth_alloc
    /\ Len(Array(h).el) = Array(h).depth_alloc + 1

C23_Witness ==
  /\ last.op = "append" /\ ~last.err /\ last.nalloc = 1
  /\ Array(last.h).depth_used = Array(last.h).depth_alloc
  /\ objs[last.h].depth = Array(last.h).depth_alloc
  /\ objs[last.res].depth = objs[last.h].depth + 1

(* C24: a database call on handle h hands the engine descriptor 0 of the
   buffer h resolves to as the name, the depth of h itself as the number of
   subscripts, and descriptors 1..depth in their order; two handles of
   different depth on one buffer are asked for different nodes. *)
C24_AdapterUsesHandleDepth ==
  /\ Asked
     => LET h     == last.h
            a     == objs[h].dereference
        IN /\ last.idx = objs[h].depth
           /\ Len(last.key) = objs[h].depth + 1
           /\ \A i \in 0..objs[h].depth :
                last.key[i + 1] = ElText(objs, objs[a], a, objs[a].el[i + 1])
           /\ (DefinitePath(Path(objs, h)) /\ Path(objs, h) = born[h])
              => last.key = born[h]
  /\ \A h1, h2 \in Handles :
       (objs[h1].dereference = objs[h2].dereference /\ objs[h1].depth # objs[h2].depth)
       => getsubs(objs, h1) # getsubs(objs, h2)

C24_Witness ==
  /\ Asked
  /\ objs[last.h].depth >= 1
  /\ objs[last.h].depth < Array(last.h).depth_used
  /\ last.key = born[last.h]
  /\ \E h2 \in Handles : /\ objs[h2].dereference = objs[last.h].dereference
                         /\ Len(born[h2]) > Len(last.key)

(* The numerals the display rule speaks of: an optional sign, an integer part
   without leading zeros and, for a number that is not an integer, a point
   and a fraction that does not end in zero. *)
CanonicalNumber(string) ==
  LET neg    == string # <<>> /\ string[1] = Minus
      body   == IF neg THEN Tail(string) ELSE string
      points == {i \in 1..Len(body) : body[i] = Point}
      first  == IF points = {} THEN Len(body)
                ELSE (CHOOSE i \in points : TRUE) - 1
  IN /\ Cardinality(points) <= 1
     /\ \A i \in 1..Len(body) : IsDigit(body[i]) \/ i \in points
     /\ first >= 1
     /\ body[1] = Zero => first = 1
     /\ points # {} => (first + 1 < Len(body) /\ body[Len(body)] # Zero)
     /\ ~(neg /\ body = <<Zero>>)

ShownTexts(h, d) ==
  [i \in 1..d |-> ElText(objs, Array(h), objs[h].dereference, Array(h).el[i + 1])]

(* C25: ToDisplayString(h, d) is subscripts 1..d in order with commas
   between them, each one unquoted exactly when its text is the canonical
   decimal string of a number, integer or not, and quoted otherwise; the
   variable name is the second value, and no other list of subscripts gives
   the same string. *)
C25_UnquotedIffNumber ==
  (Showing /\ ~last.err)
  => LET texts == ShownTexts(last.h, last.idx)
     IN /\ last.text = Joined(texts, last.idx)
        /\ last.key = <<cachearray_subscript(objs, last.h, 0)>>
        /\ \A i \in 1..last.idx :
             Definite(texts[i])
             => Shown(texts[i]) = IF CanonicalNumber(texts[i]) THEN texts[i]
                                  ELSE format_q(texts[i])
        /\ \A other \in [1..last.idx -> ShowStrs] :
             Joined(other, last.idx) = last.text => other = texts

(* C26: ToDisplayString(h, d) raises exactly when d < 0 or d is above the
   depth_used of the buffer h resolves to; without d it uses the depth of h,
   and for d = 0 it returns the empty string and the variable name. *)
C26_DisplayDepthChecked ==
  Showing
  => /\ last.err <=> (last.idx < 0 \/ last.idx > Array(last.h).depth_used)
     /\ ~last.given => last.idx = objs[last.h].depth
     /\ (~last.err /\ last.idx = 0)
        => /\ last.text = <<>>
           /\ last.key = <<cachearray_subscript(objs, last.h, 0)>>

C26_Witness ==
  /\ Showing /\ last.given /\ ~last.err
  /\ last.idx > objs[last.h].depth
  /\ last.idx = Array(last.h).depth_used
  /\ last.text # <<>>

(* C27: cachearray_create(varname, {t1..tm}, a1..ak) returns a handle of
   depth m + k that reads varname, then t1..tm, then a1..ak (an empty table
   adds nothing), and it raises when varname is not a string or a subscript
   is neither a string nor a number. *)
C27_CreateFromTable ==
  last.op = "create"
  => /\ (last.text = NotAString
         \/ (\E i \in 1..Len(last.key) : last.key[i] = NotAString)
         \/ (\E j \in 1..Len(last.args) : last.args[j] = NotAString))
        => last.err
     /\ ~last.err
        => /\ objs[last.res].depth = Len(last.key) + Len(last.args)
           /\ DefinitePath(Path(objs, last.res))
           /\ Path(objs, last.res) = <<last.text>> \o last.key \o last.args

(* The text slot d of the buffer of h holds, d being the depth of h. *)
SlotText(h) ==
  ElText(objs, Array(h), objs[h].dereference, Array(h).el[objs[h].depth + 2])

(* C28: a subscript appended at depth d makes Append allocate a new buffer
   exactly when the buffer is mutable, or the text so far plus the new text
   is above subsdata_alloc, or d >= depth_alloc, or slot d is used
   (depth_used > d) and holds another text; otherwise, also when slot d
   holds the same text, it is written into the buffer and the result shares
   that buffer. *)
C28_ForksExactlyWhenNeeded ==
  [][(Called("append") /\ Len(last'.args) = 1)
     => LET h      == last'.h
            d      == objs[h].depth
            string == last'.args[1]
            a      == Array(h)
            used   == a.depth_used > d
            room   == /\ ~IsMutable(a)
                      /\ get_subslen(a, d) + Len(string) <= a.subsdata_alloc
                      /\ d < a.depth_alloc
        IN /\ ~room => last'.nalloc = 1
           /\ (room /\ ~used) => last'.nalloc = 0
           /\ (room /\ used /\ Definite(SlotText(h)))
              => (last'.nalloc = 1 <=> SlotText(h) # string)
           /\ last'.nalloc = 1
              => objs'[last'.res].dereference \notin Handles
           /\ last'.nalloc = 0
              => /\ objs'[last'.res].dereference = objs[h].dereference
                 /\ cachearray_subscript(objs', last'.res, d + 1) = string]_vars

C28_Witness ==
  /\ last.op = "append" /\ ~last.err /\ last.nalloc = 0 /\ Len(last.args) = 1
  /\ \E c \in Handles \ {last.res} :
       /\ objs[c].dereference = objs[last.res].dereference
       /\ objs[c].depth = objs[last.res].depth
       /\ born[c] = born[last.res]

RECURSIVE LengthsBefore(_, _)
(* The sum of the lengths of descriptors 0..i-1 of array. *)
LengthsBefore(array, i) ==
  IF i = 0 THEN 0 ELSE array.el[i].len + LengthsBefore(array, i - 1)

(* Descriptor i of the buffer at address a is valid, points into that buffer
   and lies right behind descriptors 0..i-1. *)
DescriptorInPlace(a, i) ==
  LET e == objs[a].el[i + 1] IN
  /\ e.len >= 0
  /\ e.base = a
  /\ e.off = LengthsBefore(objs[a], i)
  /\ e.off + e.len <= objs[a].subsdata_alloc

(* C29: after every operation, in every buffer each descriptor 0..depth_used
   is valid and points into that buffer at the offset that is the sum of the
   lengths of the descriptors before it, the total being at most
   subsdata_alloc; none points into an earlier allocation. *)
C29_DescriptorsInOwnBuffer ==
  \A a \in Handles :
    objs[a].kind = "array"
    => \A i \in 0..objs[a].depth_used : DescriptorInPlace(a, i)

RECURSIVE TotalLen(_, _)
(* The number of bytes of the first k texts of path. *)
TotalLen(path, k) ==
  IF k = 0 THEN 0 ELSE Len(path[k]) + TotalLen(path, k - 1)

Spare == ARRAY_OVERALLOC * YDB_TYPICAL_SUBLEN

(* The buffer the handle returned by the call just made resolves to. *)
ResultArray == objs'[objs'[last'.res].dereference]

(* A buffer allocated by Append, ToMutable or Substitute has the depth asked
   for plus ARRAY_OVERALLOC slots and the text length asked for plus
   ARRAY_OVERALLOC * YDB_TYPICAL_SUBLEN bytes. *)
GrownAsRequested ==
  LET h     == last'.h
      depth == objs[h].depth
      args  == last'.args
  IN /\ Called("tomutable")
        => /\ ResultArray.depth_alloc = depth + ARRAY_OVERALLOC
           /\ ResultArray.subsdata_alloc = get_subslen(Array(h), depth) + Spare
     /\ (Called("append") /\ last'.nalloc >= 1)
        => /\ ResultArray.depth_alloc = depth + Len(args) + ARRAY_OVERALLOC
           /\ \E k \in 1..Len(args) :
                ResultArray.subsdata_alloc =
                  get_subslen(Array(h), depth) + TotalLen(args, k)
                  + (Len(args) - k) * YDB_TYPICAL_SUBLEN + Spare
     /\ (Called("subst") /\ last'.nalloc = 1)
        => /\ ResultArray.depth_alloc = depth + ARRAY_OVERALLOC
           /\ ResultArray.subsdata_alloc =
                Array(h).el[depth + 1].off + Len(last'.args[1]) + Spare

(* C30 as stated: for every input Create(name, [s1..sn]) returns a buffer
   with depth_alloc = n + OVERALLOC and subsdata_alloc = L + OVERALLOC *
   TYPICAL_SUBLEN, L being the bytes of the name and all subscripts; and a
   buffer made by a fork or growth has the requested sizes plus the spare. *)
C30_AllocationSizes ==
  [][/\ Called("create")
        => LET path == born'[last'.res] IN
           /\ ResultArray.depth_alloc = Len(last'.args) + ARRAY_OVERALLOC
           /\ ResultArray.subsdata_alloc = TotalLen(path, Len(path)) + Spare
     /\ GrownAsRequested]_vars

(* C30, amended: Create returns depth_alloc = n + OVERALLOC always, and
   subsdata_alloc = L + spare when L is at most YDB_LARGE_SUBSLEN; for a
   longer input subsdata_alloc is the spare plus the bytes of the name and
   the subscripts up to the last one that made the buffer grow, which is
   between L and L + spare; a fork or growth has the requested sizes plus
   the spare. *)
C30_AllocationSizesOfShortInput ==
  [][/\ Called("create")
        => LET path == born'[last'.res]
               L    == TotalLen(path, Len(path))
           IN /\ ResultArray.depth_alloc = Len(last'.args) + ARRAY_OVERALLOC
              /\ L <= YDB_LARGE_SUBSLEN => ResultArray.subsdata_alloc = L + Spare
              /\ L > YDB_LARGE_SUBSLEN
                 => /\ \E k \in 1..Len(path) :
                         ResultArray.subsdata_alloc = TotalLen(path, k) + Spare
                    /\ L <= ResultArray.subsdata_alloc
     /\ GrownAsRequested]_vars

C30_Witness ==
  /\ last.op = "create" /\ ~last.err
  /\ TotalLen(born[last.res], Len(born[last.res])) > YDB_LARGE_SUBSLEN
  /\ objs[last.res].subsdata_alloc
       < TotalLen(born[last.res], Len(born[last.res])) + Spare

(* C31: Substitute(m, x) overwrites in place, allocates nothing and returns
   m exactly when the byte offset of the last slot plus the length of x is at
   most subsdata_alloc; otherwise it allocates a new mutable buffer holding
   the substituted path and returns it, while m still resolves to the old
   buffer and still reads its previous last subscript. *)
C31_SubstituteInPlaceIffFits ==
  [][Called("subst")
     => LET m    == last'.h
            r    == last'.res
            d    == objs[m].depth
            x    == last'.args[1]
            fits == Array(m).el[d + 1].off + Len(x) <= Array(m).subsdata_alloc
        IN /\ fits => /\ last'.nalloc = 0
                      /\ r = m
                      /\ Len(objs') = Len(objs)
                      /\ Reads(objs', m, d, x)
           /\ ~fits => /\ last'.nalloc = 1
                       /\ r = Len(objs) + 1
                       /\ objs'[r].kind = "array"
                       /\ IsMutable(objs'[r])
                       /\ objs'[r].depth = d
                       /\ Reads(objs', r, d, x)
                       /\ \A i \in 0..(d - 1) :
                            Reads(objs', r, i, cachearray_subscript(objs, m, i))
                       /\ objs'[m] = objs[m]
                       /\ objs'[objs[m].dereference] = Array(m)
                       /\ cachearray_subscript(objs', m, d)
                            = cachearray_subscript(objs, m, d)]_vars

C31_Witness ==
  /\ last.op = "subst" /\ ~last.err /\ last.nalloc = 1
  /\ last.res # last.h
  /\ objs[last.h].depth >= 1
  /\ cachearray_subscript(objs, last.h, objs[last.h].depth)
       = born[last.h][objs[last.h].depth + 1]
  /\ born[last.h][objs[last.h].depth + 1] # last.args[1]
  /\ objs[last.res].subsdata_alloc > Array(last.h).subsdata_alloc

Views == {v \in Handles : objs[v].kind = "deferred"}

(* C32: the dereference pointer of every view targets an array, never
   another view, and the view's keep-alive reference is that same array, so
   that no array is reclaimed while a view that resolves to it is alive. *)
C32_ViewKeepsOwnerAlive ==
  \A v \in Views :
    /\ objs[objs[v].dereference].kind = "array"
    /\ objs[v].uservalue = objs[v].dereference

C32_Witness ==
  \E v \in Views : \E p \in anc[v] :
    /\ objs[p].kind = "reclaimed"
    /\ born[p] # born[objs[v].dereference]
    /\ objs[objs[v].dereference].kind = "array"
    /\ cachearray_subscript(objs, v, objs[v].depth) = born[v][objs[v].depth + 1]

(* C33: the depth_used of a buffer never decreases: no Append, with an
   empty list or with a text a slot already holds, leaves the depth_used of
   a buffer below what it was or below the depth of a handle that resolves
   to it. *)
C33_DepthUsedNeverDecreases ==
  [][\A a \in Handles :
       objs[a].kind = "array"
       => /\ objs'[a].depth_used >= objs[a].depth_used
          /\ \A h \in Handles :
               objs'[h].dereference = a => objs'[h].depth <= objs'[a].depth_used]_vars

(* C34: for every integer i, cachearray_subscript(h, i) raises a domain
   error or reads the descriptor at the position that i denotes after the
   adjustment of a negative index, which lies in 0..Depth(h); every
   i < -(Depth(h) + 1) is rejected and no descriptor before the variable
   name is read. *)
C34_SubscriptReadsWithinPath ==
  last.op = "subscript"
  => LET d == objs[last.h].depth
     IN /\ last.err \/ SubscriptIndex(last.idx, d) \in 0..d
        /\ last.idx < 0 - (d + 1) => last.err

(* C35: what ToDisplayString(h, d) returns depends only on the path h was
   built with: for every depth d it accepts, d is at most Depth(h) and the
   list shown is that of the first d subscripts of h; no slot beyond
   Depth(h) is rendered. *)
C35_DisplayWithinHandle ==
  (Showing /\ ~last.err)
  => /\ last.idx <= objs[last.h].depth
     /\ last.text = Joined([i \in 1..last.idx |-> born[last.h][i + 1]], last.idx)

(* C36: Substitute never changes the variable name (index 0) of a handle:
   every handle reads the name it read before, and the handle returned, also
   for a mutable handle of depth 0, reads the name it was created with. *)
C36_SubstituteKeepsName ==
  [][Called("subst")
     => /\ \A h \in Handles :
             cachearray_subscript(objs', h, 0) = cachearray_subscript(objs, h, 0)
        /\ cachearray_subscript(objs', last'.res, 0) = VarName]_vars

(* C37: on every path of cip after the signal blocker was invoked with
   false (a parameter type error, an invalid type id, a failed switch of
   call-in table, a failed M call, success) cip_cleanup runs exactly once
   before cip returns or raises: the blocker is invoked with true exactly
   once and every space recorded by add_malloc is freed exactly once. *)
C37_CleanupExactlyOnce ==
  (cip.op = "cip" /\ Len(cip.values) >= Len(cip.type_list))
  => /\ cip.meta.cleanups = 1
     /\ \A i \in 1..Len(cip.meta.malloc) : cip.meta.malloc[i] = 1
     /\ cip.Signal_blocker => cip.meta.flags = <<FALSE, TRUE>>
     /\ ~cip.Signal_blocker => cip.meta.flags = <<>>

C37_Witness ==
  /\ cip.op = "cip" /\ cip.meta.raised
  /\ cip.Signal_blocker
  /\ cip.status = <<"YDB_OK", "YDB_OK", "YDB_OK">>
  /\ Len(cip.meta.malloc) >= 1
  /\ cip.meta.malloc[1] = 1
  /\ cip.meta.flags = <<FALSE, TRUE>>

(* C38: tp releases the registry reference of its callback exactly once on
   every exit path, whatever status the transaction returns (YDB_OK,
   YDB_TP_RESTART, YDB_TP_ROLLBACK, a Lua error raised in the callback, any
   other error code). *)
C38_ReferenceReleasedOnce ==
  \A ref \in 1..Len(registry) :
    registry[ref].status # "running" => registry[ref].unrefs = 1

====
